---------------------------- MODULE Spec2Model ----------------------------
(* A model of anitya/lib/model.py: the persistence and domain-logic layer *)
(* of the release-monitoring service.  Strings are sequences of           *)
(* one-character strings, an optional value is <<>> (None) or <<v>>, and  *)
(* a table is a set or a function of rows.                                *)
EXTENDS Integers, Sequences, FiniteSets, TLC

VARIABLES
    \* ---- BaseQuery.paginate -------------------------------------------
    table,      \* the rows behind the query: row id -> [a, b] column values
    orderBy,    \* the order_by argument of the listing being walked
    perPage,    \* the items_per_page argument of the listing being walked
    nextPage,   \* the page the walking caller asks for next
    collected,  \* the items of the pages walked so far, concatenated
    finished,   \* TRUE once a page came back empty
    lastCall,   \* the arguments and the outcome of the last free paginate call
    \* ---- Project.get_version_class --------------------------------------
    project,      \* a Project object: version_scheme, ecosystem_name, backend
    ecoDefault,   \* ecosystem name -> its plugin's default_version_scheme
    backDefault,  \* backend name -> its plugin's default_version_scheme
    versionClass, \* what the last get_version_class call returned
    assignRaised, \* whether the last assignment to the project raised
    \* ---- the database and the searches over it ---------------------------
    dialect,      \* the storage engine: dialect.name
    distros,      \* table distros: a set of rows [name]
    projects,     \* table projects: a set of rows [id, name, ...]
    packages,     \* table packages: rows [id, project_id, distro, package_name]
    lastSearch,   \* the arguments and the result of the last search
    \* ---- Project.updated --------------------------------------------------
    filters,      \* the name, log, page and count arguments of a status report
    buckets,      \* status -> what Project.updated returned for it, if called
    \* ---- ProjectFlag ------------------------------------------------------
    flags,        \* table projects_flags: rows [id, project_id, user, state, ...]
    clock,        \* datetime.utcnow(), as a number that never goes back
    \* ---- sessions ---------------------------------------------------------
    sess,         \* session -> where its caller is, in and between calls
    nextId,       \* the next value of the id sequence of table projects
    \* ---- the audit log ----------------------------------------------------
    logRows,      \* table logs, in the order of its ids
    logRet,       \* how the last Log.insert ended
    \* ---- ownership ---------------------------------------------------------
    versions,     \* table projects_versions: rows [project_id, version]
    \* ---- Run ---------------------------------------------------------------
    runs,         \* table runs: a set of rows [status, created_on]
    lastEntry,    \* what Run.last_entry returned, if called since the last insert
    \* ---- GUID --------------------------------------------------------------
    guidIn,       \* the value given to process_bind_param
    guidStored,   \* what process_bind_param handed to the engine
    guidOut,      \* what process_result_value made of it
    guidPc,       \* "new", "bound" or "read"
    \* ---- assignment to a Project -------------------------------------------
    assigned,     \* the field and the value of the last assignment, if any
    \* ---- _paginate_query ---------------------------------------------------
    pqCount,      \* the number of rows of the ordered query
    pqPage,       \* the page argument
    pqResult,     \* what the paginated query returned, once run
    \* ---- Distro.get_or_create ----------------------------------------------
    pending       \* session -> the distro names it has flushed and not committed

pagVars == <<table, orderBy, perPage, nextPage, collected, finished, lastCall>>
verVars == <<project, ecoDefault, backDefault, versionClass, assignRaised>>

dbVars == <<dialect, distros, projects, packages>>
srchVars == <<dbVars, lastSearch>>

updVars == <<dbVars, filters, buckets>>

flagVars == <<dbVars, lastSearch, flags, clock>>

sessVars == <<dbVars, sess, nextId, pending>>

logVars == <<dbVars, clock, logRows, logRet>>

ownVars == <<dbVars, versions>>

runVars == <<clock, runs, lastEntry>>

guidVars == <<dialect, guidIn, guidStored, guidOut, guidPc>>

assignVars == <<project, assignRaised, assigned, projects>>

pqVars == <<dialect, pqCount, pqPage, pqResult>>

vars ==
    <<pagVars, verVars, srchVars, filters, buckets, flags, clock, sess, nextId,
      logRows, logRet,
    versions,
    runs, lastEntry,
    guidIn, guidStored, guidOut, guidPc,
    assigned,
    pqCount, pqPage, pqResult,
    pending>>

\* What the operations of one part leave alone: the state of the other parts.
notPag == <<verVars, srchVars, filters, buckets, flags, clock, sess, nextId,
    logRows, logRet,
    versions,
    runs, lastEntry,
    guidIn, guidStored, guidOut, guidPc,
    assigned,
    pqCount, pqPage, pqResult,
    pending>>
notVer == <<pagVars, srchVars, filters, buckets, flags, clock, sess, nextId,
    logRows, logRet,
    versions,
    runs, lastEntry,
    guidIn, guidStored, guidOut, guidPc,
    assigned,
    pqCount, pqPage, pqResult,
    pending>>
notSrch == <<pagVars, verVars, filters, buckets, flags, clock, sess, nextId,
    logRows, logRet,
    versions,
    runs, lastEntry,
    guidIn, guidStored, guidOut, guidPc,
    assigned,
    pqCount, pqPage, pqResult,
    pending>>
notUpd == <<pagVars, verVars, lastSearch, flags, clock, sess, nextId,
    logRows, logRet,
    versions,
    runs, lastEntry,
    guidIn, guidStored, guidOut, guidPc,
    assigned,
    pqCount, pqPage, pqResult,
    pending>>
notFlag == <<pagVars, verVars, filters, buckets, sess, nextId,
    logRows, logRet,
    versions,
    runs, lastEntry,
    guidIn, guidStored, guidOut, guidPc,
    assigned,
    pqCount, pqPage, pqResult,
    pending>>
notOwn ==
    <<pagVars, verVars, lastSearch, filters, buckets, flags, clock, sess, nextId,
    logRows, logRet,
    runs, lastEntry,
    guidIn, guidStored, guidOut, guidPc,
    assigned,
    pqCount, pqPage, pqResult,
    pending>>
notRun ==
    <<pagVars, verVars, srchVars, filters, buckets, flags, sess, nextId,
    logRows, logRet, versions,
    guidIn, guidStored, guidOut, guidPc,
    assigned,
    pqCount, pqPage, pqResult,
    pending>>
notGuid ==
    <<pagVars, verVars, distros, projects, packages, lastSearch, filters,
    buckets, flags, clock, sess, nextId, logRows, logRet, versions, runs,
    lastEntry,
    assigned,
    pqCount, pqPage, pqResult,
    pending>>
notAssign ==
    <<pagVars, ecoDefault, backDefault, versionClass, dialect, distros,
    packages, lastSearch, filters, buckets, flags, clock, sess, nextId,
    logRows, logRet, versions, runs, lastEntry, guidIn, guidStored, guidOut,
    guidPc,
    pqCount, pqPage, pqResult,
    pending>>
notPq ==
    <<pagVars, verVars, distros, projects, packages, lastSearch, filters,
    buckets, flags, clock, sess, nextId, logRows, logRet, versions, runs,
    lastEntry, guidIn, guidStored, guidOut, guidPc, assigned,
    pending>>
notLog == <<pagVars, verVars, lastSearch, filters, buckets, flags, sess, nextId,
    versions,
    runs, lastEntry,
    guidIn, guidStored, guidOut, guidPc,
    assigned,
    pqCount, pqPage, pqResult,
    pending>>
notSess == <<pagVars, verVars, lastSearch, filters, buckets, flags, clock,
    logRows, logRet,
    versions,
    runs, lastEntry,
    guidIn, guidStored, guidOut, guidPc,
    assigned,
    pqCount, pqPage, pqResult>>

-----------------------------------------------------------------------------
(* Optional values: Python's None and a present value.                     *)
None == <<>>
Some(v) == <<v>>
Val(o) == o[1]
Opt(S) == {None} \cup {Some(v) : v \in S}

(* The smaller of two numbers.                                             *)
Min(a, b) == IF a <= b THEN a ELSE b

(* s is a prefix of t.                                                     *)
IsPrefix(s, t) == Len(s) <= Len(t) /\ SubSeq(t, 1, Len(s)) = s

-----------------------------------------------------------------------------
(* BaseQuery.paginate                                                      *)

MaxRows == 3
MaxPerPage == 2
MaxPage == 2
ColVals == {1, 2}
Cols == {"a", "b"}
DefaultPage == 1
DefaultItemsPerPage == 25

(* The order_by argument: one column, or a tuple of columns.               *)
OrderBys ==
    {[tuple |-> FALSE, col |-> c] : c \in Cols}
    \cup {[tuple |-> TRUE, cols |-> <<c>>] : c \in Cols}
    \cup {[tuple |-> TRUE, cols |-> <<cd[1], cd[2]>>] :
              cd \in {x \in Cols \X Cols : x[1] # x[2]}}

(* if not isinstance(order_by, tuple): order_by = (order_by,)              *)
Criteria(ob) == IF ob.tuple THEN ob.cols ELSE <<ob.col>>

(* ORDER BY c1, c2, ...: row r comes no later than row s.                  *)
RECURSIVE LexLe(_, _, _)
LexLe(r, s, cs) ==
    IF cs = <<>> THEN TRUE
    ELSE IF r[Head(cs)] # s[Head(cs)] THEN r[Head(cs)] < s[Head(cs)]
    ELSE LexLe(r, s, Tail(cs))

(* The ordering is total on the rows: no two rows tie on all criteria.     *)
TotalOn(t, ob) ==
    \A i, j \in DOMAIN t :
        i # j => ~(LexLe(t[i], t[j], Criteria(ob)) /\ LexLe(t[j], t[i], Criteria(ob)))

(* self.order_by(order_by...): every sequence of all the row ids that obeys  *)
(* the criteria; rows that tie come in whatever order the engine picks.    *)
OrderedResults(t, ob) ==
    LET n == Cardinality(DOMAIN t)
    IN  {q \in [1..n -> DOMAIN t] :
            /\ \A i, j \in 1..n : i # j => q[i] # q[j]
            /\ \A i, j \in 1..n :
                   i < j => LexLe(t[q[i]], t[q[j]], Criteria(ob))}

(* offset(items_per_page * (page - 1))                                     *)
OffsetBad(page, items_per_page) == items_per_page * page
Offset(page, items_per_page) == items_per_page * (page - 1)

(* q.limit(n).offset(k).all()                                              *)
LimitOffset(q, limit, offset) ==
    SubSeq(q, offset + 1, Min(Len(q), offset + limit))

(* page < 1 or items_per_page < 1: the ValueError of paginate.            *)
InvalidArgsBad(page, items_per_page) == page < 1
InvalidArgs(page, items_per_page) == page < 1 \/ items_per_page < 1

(* paginate(page, items_per_page) on the ordered query q.                  *)
Paginate(q, page, items_per_page) ==
    LET p == IF page = None THEN DefaultPage ELSE Val(page)
        n == IF items_per_page = None THEN DefaultItemsPerPage
             ELSE Val(items_per_page)
    IN  IF InvalidArgs(p, n)
        THEN [raised |-> "ValueError"]
        ELSE [raised |-> "no",
              items |-> LimitOffset(q, n, Offset(p, n)),
              page |-> p,
              items_per_page |-> n,
              total_items |-> Len(q)]

Tables == UNION {[1..n -> [Cols -> ColVals]] : n \in 0..MaxRows}

PagInit ==
    /\ table \in Tables
    /\ orderBy \in OrderBys
    /\ perPage \in 1..MaxPerPage
    /\ nextPage = 1
    /\ collected = <<>>
    /\ finished = FALSE
    /\ lastCall = None

PagIdle ==
    /\ table = <<>>
    /\ orderBy = [tuple |-> FALSE, col |-> "a"]
    /\ perPage = 1
    /\ nextPage = 1
    /\ collected = <<>>
    /\ finished = TRUE
    /\ lastCall = None

(* A caller walks the listing: page 1, 2, 3, ... until a page is empty.    *)
WalkPage ==
    /\ ~finished
    /\ lastCall = None
    /\ \E q \in OrderedResults(table, orderBy) :
         LET r == Paginate(q, Some(nextPage), Some(perPage))
         IN  /\ collected' = collected \o r.items
             /\ finished' = (r.items = <<>>)
    /\ nextPage' = nextPage + 1
    /\ UNCHANGED <<table, orderBy, perPage, lastCall>>
    /\ UNCHANGED notPag

(* Any one call of paginate, arguments given or omitted, valid or not.     *)
PaginateCall ==
    /\ lastCall = None
    /\ nextPage = 1
    /\ \E page \in Opt(-1..MaxPage), n \in Opt({-1, 0, perPage}) :
       \E q \in OrderedResults(table, orderBy) :
         lastCall' = Some([page |-> page, items_per_page |-> n,
                           result |-> Paginate(q, page, n)])
    /\ UNCHANGED <<table, orderBy, perPage, nextPage, collected, finished>>
    /\ UNCHANGED notPag

PagNext == WalkPage \/ PaginateCall

-----------------------------------------------------------------------------
(* Project.get_version_class and the validators of Project                 *)

(* The plugin registries (anitya.lib.plugins): their names.                *)
Ecosystems == {"pypi", "crates.io"}
Backends == {"custom", "GitHub"}
Schemes == {"RPM", "PEP440"}
DEFAULT_VERSION_SCHEME == "RPM"

(* Names a caller may assign, registered or not, and the empty string.     *)
EcosystemInputs == Opt(Ecosystems \cup {"", "bogus"})
BackendInputs == Opt(Backends \cup {"bogus"})
SchemeInputs == Opt(Schemes \cup {"", "bogus"})

(* Python's truth value of an optional string: None and '' are false.      *)
Truthy(o) == o # None /\ Val(o) # ""

(* ECOSYSTEM_PLUGINS.get_plugin(name).default_version_scheme               *)
EcosystemDefault(name) == ecoDefault[name]

(* BACKEND_PLUGINS.get_plugin(name).default_version_scheme                 *)
BackendDefault(name) == backDefault[name]

(* VERSION_PLUGINS.get_plugin(name): the registered class, or nothing.     *)
VersionPlugin(name) ==
    IF name \in Schemes THEN Some([scheme |-> name]) ELSE None

(* The second step of get_version_class: the ecosystem's default.          *)
EcosystemStep(p, version_scheme) ==
    IF ~Truthy(version_scheme) /\ Truthy(p.ecosystem_name)
    THEN EcosystemDefault(Val(p.ecosystem_name))
    ELSE version_scheme

(* The third step of get_version_class: the backend's default.             *)
BackendStepBad(p, version_scheme) ==
    IF Truthy(p.backend) /\ Truthy(BackendDefault(Val(p.backend)))
    THEN BackendDefault(Val(p.backend))
    ELSE version_scheme
BackendStep(p, version_scheme) ==
    IF ~Truthy(version_scheme) /\ Truthy(p.backend)
    THEN BackendDefault(Val(p.backend))
    ELSE version_scheme

(* The name get_version_class resolves for project p.                      *)
ResolvedScheme(p) ==
    LET s1 == p.version_scheme
        s2 == EcosystemStep(p, s1)
        s3 == BackendStep(p, s2)
    IN  IF ~Truthy(s3) THEN DEFAULT_VERSION_SCHEME ELSE Val(s3)

(* Project.get_version_class                                               *)
GetVersionClass(p) == VersionPlugin(ResolvedScheme(p))

(* validate_backend: the ValueError for a name that is no backend.         *)
BackendRejected(value) == value = None \/ Val(value) \notin Backends

(* validate_ecosystem_name: '' and None pass, unknown names do not.        *)
EcosystemRejectedBad(value) == value # None /\ Val(value) \notin Ecosystems
EcosystemRejected(value) == Truthy(value) /\ Val(value) \notin Ecosystems

NewProject == [version_scheme |-> None, ecosystem_name |-> None, backend |-> None]

VerInit ==
    /\ project = NewProject
    /\ ecoDefault \in [Ecosystems -> Opt(Schemes)]
    /\ backDefault \in [Backends -> Opt(Schemes)]
    /\ versionClass = None
    /\ assignRaised = FALSE

VerIdle ==
    /\ project = NewProject
    /\ ecoDefault = [e \in Ecosystems |-> None]
    /\ backDefault = [b \in Backends |-> None]
    /\ versionClass = None
    /\ assignRaised = FALSE

(* project.version_scheme = value (the column has no validator)            *)
SetVersionScheme ==
    /\ \E value \in SchemeInputs :
         project' = [project EXCEPT !.version_scheme = value]
    /\ assignRaised' = FALSE
    /\ versionClass' = None
    /\ UNCHANGED <<ecoDefault, backDefault>>
    /\ UNCHANGED notVer

(* project.ecosystem_name = value, through validate_ecosystem_name         *)
SetEcosystemName ==
    /\ \E value \in EcosystemInputs :
         IF EcosystemRejected(value)
         THEN assignRaised' = TRUE /\ UNCHANGED project
         ELSE /\ assignRaised' = FALSE
              /\ project' = [project EXCEPT !.ecosystem_name = value]
    /\ versionClass' = None
    /\ UNCHANGED <<ecoDefault, backDefault>>
    /\ UNCHANGED notVer

(* project.backend = value, through validate_backend                       *)
SetBackend ==
    /\ \E value \in BackendInputs :
         IF BackendRejected(value)
         THEN assignRaised' = TRUE /\ UNCHANGED project
         ELSE /\ assignRaised' = FALSE
              /\ project' = [project EXCEPT !.backend = value]
    /\ versionClass' = None
    /\ UNCHANGED <<ecoDefault, backDefault>>
    /\ UNCHANGED notVer

(* project.get_version_class()                                             *)
CallGetVersionClass ==
    /\ versionClass = None
    /\ versionClass' = Some(GetVersionClass(project))
    /\ UNCHANGED <<project, ecoDefault, backDefault, assignRaised>>
    /\ UNCHANGED notVer

VerNext == SetVersionScheme \/ SetEcosystemName \/ SetBackend \/ CallGetVersionClass

-----------------------------------------------------------------------------
(* Strings, and the comparisons the storage engine makes on them           *)

(* The engines the layer runs on (initialize, GUID.load_dialect_impl).     *)
Dialects == {"postgresql", "sqlite"}

(* Stored names and user patterns: every string of at most two characters. *)
NameChars == {"a", "A", "_"}
PatternChars == NameChars \cup {"*", "%"}
ShortStrings(C) == {<<>>} \cup {<<c>> : c \in C} \cup (C \X C)
Names == ShortStrings(NameChars) \ {<<>>}
Patterns == ShortStrings(PatternChars)

(* A character in lower case.                                              *)
LowerChar(c) ==
    CASE c = "A" -> "a" [] c = "O" -> "o" [] c = "S" -> "s"
      [] c = "V" -> "v" [] c = "X" -> "x" [] OTHER -> c

(* sa.func.lower(s)                                                        *)
Lower(s) == [i \in DOMAIN s |-> LowerChar(s[i])]

(* c in s                                                                  *)
Contains(s, c) == \E i \in DOMAIN s : s[i] = c

(* s.replace(c, r): every c of s replaced by the string r.                 *)
RECURSIVE Replace(_, _, _)
Replace(s, c, r) ==
    IF s = <<>> THEN <<>>
    ELSE (IF Head(s) = c THEN r ELSE <<Head(s)>>) \o Replace(Tail(s), c, r)

(* The engine's default LIKE escape: the backslash on PostgreSQL, none on  *)
(* SQLite.                                                                 *)
BackslashEscapes(d) == d = "postgresql"

(* value LIKE pattern: % is any run of characters, _ is any one character; *)
(* where the backslash escapes, the character after it stands for itself,  *)
(* and a pattern ending in the escape matches nothing.                     *)
RECURSIVE Like(_, _, _)
Like(value, pattern, esc) ==
    IF pattern = <<>> THEN value = <<>>
    ELSE LET h == Head(pattern)
         IN  IF esc /\ h = "\\"
             THEN /\ Len(pattern) >= 2
                  /\ value # <<>>
                  /\ Head(value) = pattern[2]
                  /\ Like(Tail(value), Tail(Tail(pattern)), esc)
             ELSE IF h = "%"
             THEN \/ Like(value, Tail(pattern), esc)
                  \/ value # <<>> /\ Like(Tail(value), pattern, esc)
             ELSE IF h = "_"
             THEN value # <<>> /\ Like(Tail(value), Tail(pattern), esc)
             ELSE /\ value # <<>>
                  /\ Head(value) = h
                  /\ Like(Tail(value), Tail(pattern), esc)

(* column.ilike(pattern): LIKE on the lower-cased value and pattern.       *)
ILike(value, pattern, esc) == Like(Lower(value), Lower(pattern), esc)

(* ORDER BY on a string column: character by character, in code order.     *)
CharOrder == <<"A", "_", "a">>
CharRank(c) == CHOOSE i \in DOMAIN CharOrder : CharOrder[i] = c
RECURSIVE StrLe(_, _)
StrLe(s, t) ==
    IF s = <<>> THEN TRUE
    ELSE IF t = <<>> THEN FALSE
    ELSE IF Head(s) # Head(t) THEN CharRank(Head(s)) < CharRank(Head(t))
    ELSE StrLe(Tail(s), Tail(t))

(* query.order_by(key).all(): every sequence of the rows of S, each once,  *)
(* in the order of their keys (key maps a row to its sort key); rows with  *)
(* equal keys in any order.                                                *)
OrderedBy(S, key) ==
    LET n == Cardinality(S)
    IN  {q \in [1..n -> S] :
            /\ \A i, j \in 1..n : i # j => q[i] # q[j]
            /\ \A i, j \in 1..n : i < j => StrLe(key[q[i]], key[q[j]])}

-----------------------------------------------------------------------------
(* _paginate_query                                                         *)

PageLimit == 50
Digits == <<"0", "1", "2", "3", "4", "5", "6", "7", "8", "9">>
IsDigit(c) == \E i \in DOMAIN Digits : Digits[i] = c
DigitVal(c) == (CHOOSE i \in DOMAIN Digits : Digits[i] = c) - 1

(* int(s) succeeds: an optional sign and at least one digit.               *)
IsInt(s) ==
    LET body == IF s # <<>> /\ Head(s) \in {"-", "+"} THEN Tail(s) ELSE s
    IN  body # <<>> /\ \A i \in DOMAIN body : IsDigit(body[i])

RECURSIVE NatOf(_)
NatOf(s) == IF s = <<>> THEN 0 ELSE 10 * NatOf(SubSeq(s, 1, Len(s) - 1)) + DigitVal(s[Len(s)])

(* int(s)                                                                  *)
IntOf(s) ==
    IF Head(s) = "-" THEN 0 - NatOf(Tail(s))
    ELSE IF Head(s) = "+" THEN NatOf(Tail(s))
    ELSE NatOf(s)

(* The page of _paginate_query after its try/except: a number, or None     *)
(* when the page is missing, empty or not numeric.                         *)
PageNumber(page) ==
    IF page = None \/ Val(page) = <<>> THEN None
    ELSE IF IsInt(Val(page)) THEN Some(IntOf(Val(page)))
    ELSE None

(* _paginate_query(query, page) on the ordered rows q of the query: the    *)
(* rows it selects.  Page 0 is false and pages nothing.  A negative offset *)
(* is an error on PostgreSQL and counts as 0 on SQLite.                    *)
PaginateQuery(q, page, d) ==
    LET n == PageNumber(page)
    IN  IF n = None \/ Val(n) = 0 THEN [raised |-> "no", rows |-> q]
        ELSE LET limit == PageLimit
                 offset == (Val(n) - 1) * limit
             IN  IF offset < 0 /\ d = "postgresql"
                 THEN [raised |-> "DataError", rows |-> <<>>]
                 ELSE LET from == IF offset < 0 THEN 0 ELSE offset
                      IN  [raised |-> "no", rows |-> LimitOffset(q, limit, from)]

(* query.all() of a query for one entity: the ORM hands out each object    *)
(* once, at the place of its first row.                                    *)
RECURSIVE UniqueList(_)
UniqueList(q) ==
    IF q = <<>> THEN <<>>
    ELSE LET front == UniqueList(SubSeq(q, 1, Len(q) - 1))
             last == q[Len(q)]
         IN  IF \E i \in DOMAIN front : front[i] = last THEN front
             ELSE Append(front, last)

(* if count: return query.count() else: return query.all()                 *)
CountOrAll(r, count) ==
    IF r.raised # "no" THEN [kind |-> "raised", error |-> r.raised]
    ELSE IF count THEN [kind |-> "count", count |-> Len(r.rows)]
    ELSE [kind |-> "rows", rows |-> UniqueList(r.rows)]

-----------------------------------------------------------------------------
(* Distro.search and Project.search                                        *)

(* order_by(cls.name)                                                      *)
ByName(rows) == [r \in rows |-> r.name]

(* Distro.search: the pattern handed to LIKE.                              *)
DistroPattern(pattern) ==
    IF Contains(pattern, "*") THEN Replace(pattern, "*", <<"%">>) ELSE pattern

(* Distro.search: the rows the filter selects.                             *)
DistroMatches(rows, pattern, d) ==
    {r \in rows :
        Like(Lower(r.name), Lower(DistroPattern(pattern)), BackslashEscapes(d))}

(* Project.search: the pattern after replace('_', '\_') and replace('*', '%'). *)
ProjectPattern(pattern) ==
    LET escaped == Replace(pattern, "_", <<"\\", "_">>)
    IN  IF Contains(escaped, "*") THEN Replace(escaped, "*", <<"%">>) ELSE escaped

(* Project.search: ilike when the translated pattern holds a %, else ==.   *)
NameFilter(value, translated, d) ==
    IF Contains(translated, "%")
    THEN ILike(value, translated, BackslashEscapes(d))
    ELSE value = translated

(* lower(Packages.distro) == lower(distro); a NULL distro equals nothing.  *)
InDistroBad(pkg, distro) == pkg.distro = Some(distro)
InDistro(pkg, distro) ==
    pkg.distro # None /\ Lower(Val(pkg.distro)) = Lower(distro)

(* A row of a query for Project: the project, and the Packages row it was  *)
(* joined with (None without a join).  Two rows with the same project are  *)
(* the same row to the engine; via keeps them apart until they are merged. *)
JoinRow(p, via) == [proj |-> p, via |-> via]

(* Project.id == Packages.project_id                                       *)
Joined(p, k) == k.project_id = Some(p.id)

(* Project.search: the rows of query1, the projects matched by their own   *)
(* name, joined with their packages of the distro when one is given.       *)
ByProjectName(projs, pkgs, pattern, distro, d) ==
    LET named == {p \in projs :
                    pattern # <<>> =>
                        NameFilter(p.name, ProjectPattern(pattern), d)}
    IN  IF distro = None THEN {JoinRow(p, None) : p \in named}
        ELSE {JoinRow(r[1], Some(r[2].id)) :
                 r \in {x \in named \X pkgs :
                           Joined(x[1], x[2]) /\ InDistro(x[2], Val(distro))}}

(* Project.search: the rows of query2, the projects joined with their      *)
(* packages matched by package name, and by distro when one is given.      *)
ByPackageNameBad(projs, pkgs, pattern, distro, d) ==
    {JoinRow(r[1], Some(r[2].id)) :
        r \in {x \in projs \X pkgs :
                  /\ Joined(x[1], x[2])
                  /\ pattern # <<>> =>
                        NameFilter(x[2].package_name, ProjectPattern(pattern), d)}}
ByPackageName(projs, pkgs, pattern, distro, d) ==
    {JoinRow(r[1], Some(r[2].id)) :
        r \in {x \in projs \X pkgs :
                  /\ Joined(x[1], x[2])
                  /\ pattern # <<>> =>
                        NameFilter(x[2].package_name, ProjectPattern(pattern), d)
                  /\ distro # None => InDistro(x[2], Val(distro))}}

(* query.distinct(): rows with the same columns are one row.               *)
Distinct(rows) == {JoinRow(r.proj, None) : r \in rows}

(* q1.union(q2): UNION keeps one of the rows that are the same.            *)
Union(rows1, rows2) == Distinct(rows1 \cup rows2)

(* Project.search: query1.distinct().union(query2.distinct())              *)
ProjectMatches(projs, pkgs, pattern, distro, d) ==
    Union(Distinct(ByProjectName(projs, pkgs, pattern, distro, d)),
          Distinct(ByPackageName(projs, pkgs, pattern, distro, d)))

(* The Project columns of the rows of a query, in their order.             *)
Selected(q) == [i \in DOMAIN q |-> q[i].proj]

(* order_by(Project.name), order_by(func.lower(Project.name)) on join rows *)
ByProjName(rows) == [r \in rows |-> r.proj.name]
ByLowerProjName(rows) == [r \in rows |-> Lower(r.proj.name)]

(* Project.by_distro: the rows of its query, one for every package of the  *)
(* distro that a project has.                                              *)
InDistroRows(projs, pkgs, distro) ==
    {JoinRow(r[1], Some(r[2].id)) :
        r \in {x \in projs \X pkgs :
                  Joined(x[1], x[2]) /\ InDistro(x[2], distro)}}

(* The rows of tables projects, packages and distros.                      *)
ProjectRow(id, name) ==
    [id |-> id, name |-> name, homepage |-> <<"h">>, backend |-> Some("custom"),
     ecosystem_name |-> None, version_scheme |-> None,
     latest_version |-> None, logs |-> None, txn |-> 0]
PackageRow(id, project_id, distro, package_name) ==
    [id |-> id, project_id |-> project_id, distro |-> distro,
     package_name |-> package_name]
DistroRow(name) == [name |-> name]

(* Names of packages.                                                      *)
PackageNames == {<<"a">>, <<"A">>}

(* The arguments the searches are tried with.                              *)
PageInputs == {None, Some(<<"1">>), Some(<<"x">>)}
DistroInputs == {None, Some(<<"a">>)}

(* A store of distributions only, or one distribution "A" with one or two  *)
(* projects and at most one package.                                       *)
SrchInit ==
    /\ dialect \in Dialects
    /\ lastSearch = None
    /\ \/ /\ distros \in {{DistroRow(m), DistroRow(n)} : m, n \in Names}
          /\ projects = {}
          /\ packages = {}
       \/ /\ distros = {DistroRow(<<"A">>)}
          /\ projects \in {{ProjectRow(1, m)} : m \in Names}
                 \cup {{ProjectRow(1, m), ProjectRow(2, <<"a">>)} : m \in Names}
          /\ packages \in {{}} \cup
                 {{PackageRow(1, Some(p.id), Some(<<"A">>), n)} :
                      p \in projects, n \in Names}

SrchIdle ==
    /\ dialect = "postgresql"
    /\ distros = {}
    /\ projects = {}
    /\ packages = {}
    /\ lastSearch = None

(* Distro.search(session, pattern, page, count)                            *)
DistroSearch ==
    /\ lastSearch = None
    /\ \E pattern \in Patterns, page \in PageInputs, count \in BOOLEAN :
       \E q \in OrderedBy(DistroMatches(distros, pattern, dialect), ByName(distros)) :
         lastSearch' = Some([fn |-> "Distro.search", pattern |-> pattern,
                             distro |-> None, page |-> page, count |-> count,
                             result |-> CountOrAll(PaginateQuery(q, page, dialect), count)])
    /\ UNCHANGED dbVars
    /\ UNCHANGED notSrch

(* Project.search(session, pattern, distro, page, count)                   *)
ProjectSearch ==
    /\ lastSearch = None
    /\ \E pattern \in Patterns, distro \in DistroInputs,
          page \in PageInputs, count \in BOOLEAN :
       LET rows == ProjectMatches(projects, packages, pattern, distro, dialect)
       IN
       \E q \in OrderedBy(rows, ByProjName(rows)) :
         lastSearch' = Some([fn |-> "Project.search", pattern |-> pattern,
                             distro |-> distro, page |-> page, count |-> count,
                             result |-> CountOrAll(PaginateQuery(Selected(q),
                                                       page, dialect), count)])
    /\ UNCHANGED dbVars
    /\ UNCHANGED notSrch

SrchNext == DistroSearch \/ ProjectSearch

-----------------------------------------------------------------------------
(* Project.by_distro, and the searches over projects with several packages *)

MaxPackages == 2
PackagedDistros == {<<"A">>, <<"_">>}
DistroNames == {<<"a">>, <<"A">>, <<"_">>}

(* The packages a store may hold: of either project, in either distro.     *)
PackageChoices == {1, 2} \X PackagedDistros \X PackageNames

(* Two projects, two distros, and at most MaxPackages packages, no two of  *)
(* them with the same (distro, package_name).                              *)
PackagedInit ==
    /\ dialect \in Dialects
    /\ lastSearch = None
    /\ projects = {ProjectRow(1, <<"a">>), ProjectRow(2, <<"A">>)}
    /\ distros = {DistroRow(n) : n \in PackagedDistros}
    /\ \E n \in 0..MaxPackages : \E c \in [1..n -> PackageChoices] :
         /\ \A i, j \in 1..n :
               (c[i][2] = c[j][2] /\ c[i][3] = c[j][3]) => i = j
         /\ packages =
               {PackageRow(i, Some(c[i][1]), Some(c[i][2]), c[i][3]) : i \in 1..n}

(* Project.by_distro(session, distro, page, count)                         *)
ProjectByDistro ==
    /\ lastSearch = None
    /\ \E distro \in DistroNames, page \in PageInputs, count \in BOOLEAN :
       LET rows == InDistroRows(projects, packages, distro)
       IN
       \E q \in OrderedBy(rows, ByLowerProjName(rows)) :
         lastSearch' = Some([fn |-> "Project.by_distro", pattern |-> <<>>,
                             distro |-> Some(distro), page |-> page,
                             count |-> count,
                             result |-> CountOrAll(PaginateQuery(Selected(q),
                                                       page, dialect), count)])
    /\ UNCHANGED dbVars
    /\ UNCHANGED notSrch

PackagedNext == ProjectByDistro \/ ProjectSearch

-----------------------------------------------------------------------------
(* Project.updated                                                         *)

MaxProjects == 1

(* 'Version retrieved correctly'                                           *)
VersionRetrieved ==
    <<"V", "e", "r", "s", "i", "o", "n", " ", "r", "e", "t", "r", "i",
    "e", "v", "e", "d", " ", "c", "o", "r", "r", "e", "c", "t", "l", "y">>

(* 'Something strange occured'                                             *)
SomethingStrange ==
    <<"S", "o", "m", "e", "t", "h", "i", "n", "g", " ", "s", "t", "r",
    "a", "n", "g", "e", " ", "o", "c", "c", "u", "r", "e", "d">>

(* What the logs column of a project may hold.                             *)
LogValues ==
    {None, Some(VersionRetrieved), Some(Lower(VersionRetrieved)),
     Some(SomethingStrange), Some(Lower(SomethingStrange) \o <<":", "x">>),
     Some(<<"X">>)}
VersionValues == {None, Some(<<"1">>)}
Statuses == {"updated", "failed", "odd", "new", "never_updated"}

(* Project.logs.ilike('Something strange occured%')                        *)
IsStrange(logs, d) ==
    ILike(logs, SomethingStrange \o <<"%">>, BackslashEscapes(d))

(* Project.logs.isnot(None), Project.logs != 'Version retrieved correctly' *)
NotRetrieved(p) == p.logs # None /\ Val(p.logs) # VersionRetrieved

(* status == 'failed': the filter of Project.updated.                      *)
FailedFilterBad(p, d) == p.logs # None /\ ~IsStrange(Val(p.logs), d)
FailedFilter(p, d) == NotRetrieved(p) /\ ~IsStrange(Val(p.logs), d)

(* The filter Project.updated applies for a status; none for any other     *)
(* status.                                                                 *)
StatusFilter(p, status, d) ==
    CASE status = "updated" -> p.logs # None /\ Val(p.logs) = VersionRetrieved
      [] status = "failed" -> FailedFilter(p, d)
      [] status = "odd" -> NotRetrieved(p) /\ IsStrange(Val(p.logs), d)
      [] status = "new" -> p.logs = None
      [] status = "never_updated" -> NotRetrieved(p) /\ p.latest_version = None
      [] OTHER -> TRUE

(* The name and log filters: * becomes %, a text without * is sought       *)
(* anywhere in the value.                                                  *)
SubstringPattern(text) ==
    IF Contains(text, "*") THEN Replace(text, "*", <<"%">>)
    ELSE <<"%">> \o text \o <<"%">>

(* if name: Project.name.ilike(name); if log: Project.logs.ilike(log)      *)
TextFilter(value, text, d) ==
    (text # None /\ Val(text) # <<>>) =>
        /\ value # None
        /\ ILike(Val(value), SubstringPattern(Val(text)), BackslashEscapes(d))

(* Project.updated: the rows its filters select.                           *)
UpdatedMatches(projs, status, name, log, d) ==
    {p \in projs :
        /\ StatusFilter(p, status, d)
        /\ TextFilter(Some(p.name), name, d)
        /\ TextFilter(p.logs, log, d)}

(* order_by(sa.func.lower(Project.name))                                   *)
ByLowerName(rows) == [r \in rows |-> Lower(r.name)]

NameInputs == {None, Some(<<"a">>)}
LogInputs == {None, Some(<<"*", "x">>)}

UpdInit ==
    /\ dialect \in Dialects
    /\ distros = {}
    /\ packages = {}
    /\ \E n \in 0..MaxProjects :
         \E logs \in [1..n -> LogValues], version \in [1..n -> VersionValues] :
           projects = {[ProjectRow(i, <<"a">>) EXCEPT
                            !.logs = logs[i], !.latest_version = version[i]] :
                       i \in 1..n}
    /\ filters \in [name : NameInputs, log : LogInputs,
                    page : {None, Some(<<"1">>)}, count : BOOLEAN]
    /\ buckets = [s \in Statuses \cup {"all"} |-> None]

UpdIdle ==
    /\ filters = [name |-> None, log |-> None, page |-> None, count |-> FALSE]
    /\ buckets = [s \in Statuses \cup {"all"} |-> None]

(* Project.updated(session, status, name, log, page, count)                *)
ProjectUpdated ==
    /\ \E status \in DOMAIN buckets :
         /\ buckets[status] = None
         /\ \E q \in OrderedBy(UpdatedMatches(projects, status, filters.name,
                                              filters.log, dialect),
                               ByLowerName(projects)) :
              buckets' = [buckets EXCEPT ![status] =
                  Some(CountOrAll(PaginateQuery(q, filters.page, dialect),
                                  filters.count))]
    /\ UNCHANGED <<dbVars, filters>>
    /\ UNCHANGED notUpd

UpdNext == ProjectUpdated

-----------------------------------------------------------------------------
(* ProjectFlag                                                             *)

MaxFlags == 2
FlagStates == {"open", "closed"}
Users == {"ann", "bob"}

(* state = sa.Column(sa.String(50), default='open'): the value inserted.   *)
StateDefaultBad(state) == IF state = None THEN "closed" ELSE Val(state)
StateDefault(state) == IF state = None THEN "open" ELSE Val(state)

(* A row of projects_flags; given is what the callers last set the state   *)
(* to (None: never set), kept beside the row to state what they expect.    *)
FlagRow(id, project_id, user, state, created_on) ==
    [id |-> id, project_id |-> project_id, reason |-> <<"r">>, user |-> user,
     state |-> StateDefault(state), created_on |-> created_on, given |-> state]

(* ProjectFlag.search: the rows its filters select.                        *)
FlagMatches(rows, projs, project_name, from_date, user, state) ==
    {f \in rows :
        /\ (project_name # None /\ Val(project_name) # <<>>) =>
               \E p \in projs :
                   f.project_id = Some(p.id) /\ p.name = Val(project_name)
        /\ from_date # None => f.created_on >= Val(from_date)
        /\ Truthy(user) => f.user = Val(user)
        /\ Truthy(state) => f.state = Val(state)}

(* order_by(cls.created_on.desc()): every sequence of the rows, each once, *)
(* newest first; rows created at the same time in any order.               *)
NewestFirst(S) ==
    LET n == Cardinality(S)
    IN  {q \in [1..n -> S] :
            /\ \A i, j \in 1..n : i # j => q[i] # q[j]
            /\ \A i, j \in 1..n : i < j => q[i].created_on >= q[j].created_on}

(* if offset: query.offset(offset); if limit: query.limit(limit)           *)
OffsetLimit(q, offset, limit) ==
    LET from == IF offset = None THEN 0 ELSE Val(offset)
        rest == SubSeq(q, from + 1, Len(q))
    IN  IF limit = None \/ Val(limit) = 0 THEN rest
        ELSE SubSeq(rest, 1, Min(Len(rest), Val(limit)))

(* ProjectFlag.search on the ordered rows q: the count, taken before       *)
(* offset and limit, or the rows.                                          *)
FlagSearchResult(q, limit, offset, count) ==
    IF count THEN [kind |-> "count", count |-> Len(q)]
    ELSE [kind |-> "rows", rows |-> OffsetLimit(q, offset, limit)]

FlagInit ==
    /\ dialect = "postgresql"
    /\ distros = {}
    /\ packages = {}
    /\ projects = {ProjectRow(1, <<"a">>), ProjectRow(2, <<"A">>)}
    /\ lastSearch = None
    /\ flags = {}
    /\ clock = 0

FlagIdle ==
    /\ flags = {}
    /\ clock = 0

(* ProjectFlag(project=..., user=..., reason=..., [state=...]) added and    *)
(* flushed; created_on is utcnow().                                        *)
CreateFlag ==
    /\ Cardinality(flags) < MaxFlags
    /\ \E p \in projects, user \in Users, state \in Opt(FlagStates),
          now \in {clock, clock + 1} :
         /\ flags' = flags \cup
                {FlagRow(Cardinality(flags) + 1, Some(p.id), user, state, now)}
         /\ clock' = now
    /\ lastSearch' = None
    /\ UNCHANGED dbVars
    /\ UNCHANGED notFlag

(* flag.state = state, by a moderator: closing, or opening again.          *)
SetFlagState ==
    /\ \E f \in flags, state \in FlagStates :
         /\ f.state # state
         /\ flags' = (flags \ {f}) \cup
                {[f EXCEPT !.state = state, !.given = Some(state)]}
    /\ lastSearch' = None
    /\ UNCHANGED <<dbVars, clock>>
    /\ UNCHANGED notFlag

(* The arguments ProjectFlag.search is tried with: any state, and at most  *)
(* one of the other arguments given.                                       *)
NoFlagArgs ==
    [project_name |-> None, from_date |-> None, user |-> None,
     limit |-> None, offset |-> None, count |-> FALSE]
FlagSearchInputs ==
    {NoFlagArgs,
     [NoFlagArgs EXCEPT !.project_name = Some(<<"a">>)],
     [NoFlagArgs EXCEPT !.from_date = Some(1)],
     [NoFlagArgs EXCEPT !.user = Some("ann")],
     [NoFlagArgs EXCEPT !.limit = Some(1)],
     [NoFlagArgs EXCEPT !.offset = Some(1)],
     [NoFlagArgs EXCEPT !.count = TRUE]}

(* ProjectFlag.search(session, project_name, from_date, user, state,       *)
(* limit, offset, count)                                                   *)
FlagSearch ==
    /\ lastSearch = None
    /\ \E a \in FlagSearchInputs, state \in Opt(FlagStates \cup {""}) :
       \E q \in NewestFirst(FlagMatches(flags, projects, a.project_name,
                                        a.from_date, a.user, state)) :
         lastSearch' = Some([fn |-> "ProjectFlag.search",
                             project_name |-> a.project_name,
                             from_date |-> a.from_date, user |-> a.user,
                             state |-> state, limit |-> a.limit,
                             offset |-> a.offset, count |-> a.count,
                             result |-> FlagSearchResult(q, a.limit, a.offset,
                                                         a.count)])
    /\ UNCHANGED <<dbVars, flags, clock>>
    /\ UNCHANGED notFlag

FlagNext == CreateFlag \/ SetFlagState \/ FlagSearch

-----------------------------------------------------------------------------
(* Sessions, and Project.get_or_create                                     *)

MaxId == 3
Sessions == {1, 2}
Homepages == {<<"h">>, <<"H">>}
ProjectNames == {<<"a">>}
ProjectKeys == ProjectNames \X Homepages

(* The (name, homepage) of a row.                                          *)
KeyOf(p) == <<p.name, p.homepage>>

(* What a session reads: the committed rows and the rows of its own        *)
(* transaction (txn 0 is committed, txn s is flushed by session s).        *)
Visible(rows, s) == {r \in rows : r.txn \in {0, s}}

(* Project.by_name_and_homepage: the rows its two filters select.          *)
ByNameAndHomepageBad(rows, name, homepage) == {p \in rows : p.name = name}
ByNameAndHomepage(rows, name, homepage) ==
    {p \in rows : p.name = name /\ p.homepage = homepage}

(* The rows of the table that row cannot stand beside:                     *)
(* UniqueConstraint('name', 'homepage') and                                *)
(* UniqueConstraint('name', 'ecosystem_name'), where NULL equals nothing.  *)
UniqueClashBad(rows, row) ==
    {r \in rows :
        /\ r.name = row.name
        /\ r.ecosystem_name # None
        /\ r.ecosystem_name = row.ecosystem_name}
UniqueClash(rows, row) ==
    {r \in rows :
        \/ r.name = row.name /\ r.homepage = row.homepage
        \/ /\ r.name = row.name
           /\ r.ecosystem_name # None
           /\ r.ecosystem_name = row.ecosystem_name}

(* What a call returned or raised.                                         *)
Returned1(id) == Some([kind |-> "row", id |-> id])
Raised(error) == Some([kind |-> "raised", error |-> error])

(* A session between calls, in a fresh transaction.  seen, raced and found *)
(* are kept for the properties: the ids get_or_create returned per key in  *)
(* this transaction, whether the last call missed its lookup while another *)
(* session stood between its own lookup and insert for the same key, and   *)
(* whether the last call returned the row its lookup found.                *)
IdleSession ==
    [pc |-> "idle", args |-> None, ret |-> None,
     seen |-> [k \in ProjectKeys |-> {}], raced |-> FALSE, found |-> FALSE]

SessInit ==
    /\ dialect = "postgresql"
    /\ distros = {}
    /\ packages = {}
    /\ projects = {}
    /\ sess = [s \in Sessions |-> IdleSession]
    /\ nextId = 1
    /\ pending = [s \in Sessions |-> {}]

SessIdle ==
    /\ sess = [s \in Sessions |-> IdleSession]
    /\ nextId = 1
    /\ pending = [s \in Sessions |-> {}]

(* Project.get_or_create, up to the row it finds or the object it builds:  *)
(* lines 559-561.                                                          *)
GetOrCreateLookup(s) ==
    /\ sess[s].pc = "idle"
    /\ \E name \in ProjectNames, homepage \in Homepages,
          backend \in {Some("custom"), Some("bogus")} :
         LET found == ByNameAndHomepage(Visible(projects, s), name, homepage)
             k == <<name, homepage>>
             rivals == {t \in Sessions \ {s} :
                           /\ sess[t].pc = "insert"
                           /\ KeyOf(Val(sess[t].args)) = k}
         IN  IF found # {}
             THEN \E p \in found :
                    sess' = [sess EXCEPT
                        ![s].ret = Returned1(p.id),
                        ![s].raced = FALSE,
                        ![s].found = TRUE,
                        ![s].seen[k] = @ \cup {p.id}]
             ELSE IF BackendRejected(backend)
             THEN sess' = [sess EXCEPT ![s].ret = Raised("ValueError"),
                                       ![s].raced = FALSE,
                                       ![s].found = FALSE]
             ELSE sess' = [t \in Sessions |->
                    IF t = s
                    THEN [sess[s] EXCEPT
                             !.pc = "insert",
                             !.args = Some([name |-> name, homepage |-> homepage,
                                            backend |-> backend]),
                             !.ret = None,
                             !.found = FALSE,
                             !.raced = (rivals # {})]
                    ELSE IF t \in rivals THEN [sess[t] EXCEPT !.raced = TRUE]
                    ELSE sess[t]]
    /\ UNCHANGED <<dbVars, nextId, pending>>
    /\ UNCHANGED notSess

(* Project.get_or_create from session.add to return: lines 562-564.  The   *)
(* INSERT of the flush waits while another transaction holds an            *)
(* uncommitted row it would clash with, and raises IntegrityError, which   *)
(* nothing here catches, when it clashes with a row it can see.            *)
GetOrCreateInsert(s) ==
    /\ sess[s].pc = "insert"
    /\ LET a == Val(sess[s].args)
           row == [ProjectRow(nextId, a.name) EXCEPT
                      !.homepage = a.homepage, !.backend = a.backend, !.txn = s]
           clash == UniqueClash(projects, row)
       IN  /\ \A r \in clash : r.txn \in {0, s}
           /\ IF clash # {}
              THEN /\ sess' = [sess EXCEPT ![s].pc = "failed",
                                           ![s].ret = Raised("IntegrityError")]
                   /\ UNCHANGED <<projects, nextId>>
              ELSE /\ nextId <= MaxId
                   /\ projects' = projects \cup {row}
                   /\ nextId' = nextId + 1
                   /\ sess' = [sess EXCEPT
                          ![s].pc = "idle",
                          ![s].ret = Returned1(row.id),
                          ![s].seen[KeyOf(row)] = @ \cup {row.id}]
    /\ UNCHANGED <<dialect, distros, packages, pending>>
    /\ UNCHANGED notSess

(* session.commit() by the caller: what the session has flushed becomes    *)
(* visible to the others.                                                  *)
Commit(s) ==
    /\ sess[s].pc = "idle"
    /\ (\E r \in projects : r.txn = s) \/ pending[s] # {}
    /\ projects' = {[r EXCEPT !.txn = IF r.txn = s THEN 0 ELSE r.txn] :
                    r \in projects}
    /\ distros' = distros \cup {DistroRow(n) : n \in pending[s]}
    /\ pending' = [pending EXCEPT ![s] = {}]
    /\ UNCHANGED <<dialect, packages, sess, nextId>>
    /\ UNCHANGED notSess

(* session.rollback() by the caller: after a failed flush, or to give up   *)
(* what it has flushed.                                                    *)
Rollback(s) ==
    /\ \/ sess[s].pc = "failed"
       \/ /\ sess[s].pc = "idle"
          /\ (\E r \in projects : r.txn = s) \/ pending[s] # {}
    /\ projects' = {r \in projects : r.txn # s}
    /\ pending' = [pending EXCEPT ![s] = {}]
    /\ sess' = [sess EXCEPT ![s].pc = "idle",
                            ![s].seen = [k \in ProjectKeys |-> {}]]
    /\ UNCHANGED <<dialect, distros, packages, nextId>>
    /\ UNCHANGED notSess

SessNext ==
    \E s \in Sessions :
        \/ GetOrCreateLookup(s)
        \/ GetOrCreateInsert(s)
        \/ Commit(s)
        \/ Rollback(s)

(* Distro.by_name: the rows its filter selects,                            *)
(* lower(cls.name) == lower(name).                                         *)
DistroByName(rows, name) == {r \in rows : Lower(r.name) = Lower(name)}

(* The distros a session reads: the committed rows and the rows of its own *)
(* transaction.                                                            *)
VisibleDistros(s) == distros \cup {DistroRow(n) : n \in pending[s]}

ReturnedDistro(name) == Some([kind |-> "distro", name |-> name])

(* Distro.get_or_create, up to the row it finds or the object it builds:   *)
(* lines 341-345.                                                          *)
DistroGetOrCreateLookup(s) ==
    /\ sess[s].pc = "idle"
    /\ \E name \in DistroNames :
         LET found == DistroByName(VisibleDistros(s), name)
         IN  IF found # {}
             THEN \E r \in found :
                    sess' = [sess EXCEPT ![s].ret = ReturnedDistro(r.name),
                                         ![s].args = Some([name |-> name]),
                                         ![s].raced = FALSE,
                                         ![s].found = TRUE]
             ELSE sess' = [sess EXCEPT ![s].pc = "distro_insert",
                                       ![s].args = Some([name |-> name]),
                                       ![s].ret = None,
                                       ![s].raced = FALSE,
                                       ![s].found = FALSE]
    /\ UNCHANGED <<dbVars, nextId, pending>>
    /\ UNCHANGED notSess

(* Distro.get_or_create from session.add to return: lines 346-348.  name   *)
(* is the primary key, compared as it is written: the INSERT waits for a   *)
(* transaction that holds the same name uncommitted, and raises            *)
(* IntegrityError when the session can see a row with the same name.       *)
DistroGetOrCreateInsert(s) ==
    /\ sess[s].pc = "distro_insert"
    /\ LET name == Val(sess[s].args).name
       IN  /\ \A t \in Sessions \ {s} : name \notin pending[t]
           /\ IF DistroRow(name) \in VisibleDistros(s)
              THEN /\ sess' = [sess EXCEPT ![s].pc = "failed",
                                           ![s].ret = Raised("IntegrityError")]
                   /\ UNCHANGED pending
              ELSE /\ pending' = [pending EXCEPT ![s] = @ \cup {name}]
                   /\ sess' = [sess EXCEPT ![s].pc = "idle",
                                           ![s].ret = ReturnedDistro(name)]
    /\ UNCHANGED <<dbVars, nextId>>
    /\ UNCHANGED notSess

DistroSessNext ==
    \E s \in Sessions :
        \/ DistroGetOrCreateLookup(s)
        \/ DistroGetOrCreateInsert(s)
        \/ Commit(s)
        \/ Rollback(s)

-----------------------------------------------------------------------------
(* Log, and the changes of projects and distros its entries outlive        *)

MaxLogs == 2
LogNames == {<<"a">>, <<"A">>}
Descriptions == {<<"d">>}

(* A row of logs.  given is kept for the properties: the objects the       *)
(* caller passed, as they were at the call.                                *)
LogRow(id, user, project_name, distro_name, description, created_on, given) ==
    [id |-> id, user |-> user, project |-> project_name, distro |-> distro_name,
     description |-> description, created_on |-> created_on, given |-> given]

(* project_name = None; if project: project_name = project.name, and the   *)
(* same for distro: an object passed is truthy, None is not.               *)
NameOf(obj) == IF obj # None THEN Some(Val(obj).name) ELSE None

(* logs.project and logs.distro are plain String columns, without a        *)
(* ForeignKey: an UPDATE or DELETE of the project or distro named old      *)
(* reaches no row of logs.                                                 *)
LogsAfterBad(lg, column, old, new) ==
    [i \in DOMAIN lg |->
        IF lg[i][column] = Some(old)
        THEN [lg[i] EXCEPT ![column] = new]
        ELSE lg[i]]
LogsAfter(lg, column, old, new) == lg

(* packages.distro follows its distro: onupdate and ondelete cascade.      *)
PackagesAfterDistro(pkgs, old, new) ==
    {IF k.distro = Some(old) THEN [k EXCEPT !.distro = new] ELSE k :
        k \in {k \in pkgs : new # None \/ k.distro # Some(old)}}

(* One or two projects, one or two distros, at most one package, no log.   *)
LogInit ==
    /\ dialect = "postgresql"
    /\ \E ns \in SUBSET LogNames :
         /\ ns # {}
         /\ \E id \in [ns -> 1..2] :
              /\ \A m \in ns, n \in ns : id[m] = id[n] => m = n
              /\ 1 \in {id[n] : n \in ns}
              /\ projects = {ProjectRow(id[n], n) : n \in ns}
    /\ \E ds \in SUBSET LogNames :
         /\ ds # {}
         /\ distros = {DistroRow(n) : n \in ds}
    /\ \/ packages = {}
       \/ \E p \in projects, d \in distros :
             packages = {PackageRow(1, Some(p.id), Some(d.name), <<"a">>)}
    /\ clock = 0
    /\ logRows = <<>>
    /\ logRet = "none"

LogIdle ==
    /\ logRows = <<>>
    /\ logRet = "none"

(* Log.insert(session, user, project, distro, description): description is *)
(* NOT NULL, so the flush of an entry without one raises and adds nothing. *)
LogInsert ==
    /\ Len(logRows) < MaxLogs
    /\ \E user \in Users, p \in Opt(projects), d \in Opt(distros),
          description \in Opt(Descriptions) :
         IF description = None
         THEN /\ logRet' = "IntegrityError"
              /\ UNCHANGED <<logRows, clock>>
         ELSE /\ logRows' = Append(logRows,
                     LogRow(Len(logRows) + 1, user, NameOf(p), NameOf(d),
                            description, clock + 1,
                            [project |-> p, distro |-> d]))
              /\ clock' = clock + 1
              /\ logRet' = "returned"
    /\ UNCHANGED dbVars
    /\ UNCHANGED notLog

(* project.name = name, flushed: refused when another project has the name *)
(* with the same homepage or ecosystem.                                    *)
RenameProject ==
    /\ \E p \in projects : \E name \in LogNames \ {p.name} :
         LET row == [p EXCEPT !.name = name]
         IN  /\ UniqueClash(projects \ {p}, row) = {}
             /\ projects' = (projects \ {p}) \cup {row}
             /\ logRows' = LogsAfter(logRows, "project", p.name, Some(name))
    /\ UNCHANGED <<dialect, distros, packages, clock, logRet>>
    /\ UNCHANGED notLog

(* session.delete(project), flushed: the relations Project.packages and    *)
(* Project.versions_obj have no delete cascade, so the unit of work sets   *)
(* project_id of the children to NULL before it deletes the project.  Its  *)
(* packages stay, with project_id NULL; project_id is part of the primary  *)
(* key of projects_versions, so with a version the flush raises and        *)
(* deletes nothing.                                                        *)
DeleteProject ==
    /\ \E p \in projects :
         /\ \A v \in versions : v.project_id # p.id
         /\ projects' = projects \ {p}
         /\ packages' = {IF k.project_id = Some(p.id)
                         THEN [k EXCEPT !.project_id = None] ELSE k :
                         k \in packages}
         /\ logRows' = LogsAfter(logRows, "project", p.name, None)
    /\ UNCHANGED <<dialect, distros, clock, logRet>>
    /\ UNCHANGED notLog

(* distro.name = name, flushed: the primary key changes, and packages      *)
(* follow it.                                                              *)
RenameDistro ==
    /\ \E d \in distros : \E name \in LogNames \ {d.name} :
         /\ DistroRow(name) \notin distros
         /\ distros' = (distros \ {d}) \cup {DistroRow(name)}
         /\ packages' = PackagesAfterDistro(packages, d.name, Some(name))
         /\ logRows' = LogsAfter(logRows, "distro", d.name, Some(name))
    /\ UNCHANGED <<dialect, projects, clock, logRet>>
    /\ UNCHANGED notLog

(* session.delete(distro), flushed: its packages go with it.               *)
DeleteDistro ==
    /\ \E d \in distros :
         /\ distros' = distros \ {d}
         /\ packages' = PackagesAfterDistro(packages, d.name, None)
         /\ logRows' = LogsAfter(logRows, "distro", d.name, None)
    /\ UNCHANGED <<dialect, projects, clock, logRet>>
    /\ UNCHANGED notLog

LogNext ==
    \/ LogInsert
    \/ RenameProject
    \/ DeleteProject
    \/ RenameDistro
    \/ DeleteDistro

-----------------------------------------------------------------------------
(* Project, and the Packages and ProjectVersion rows that refer to it      *)

MaxOwned == 2
VersionStrings == {<<"1">>, <<"2">>}

VersionRow(project_id, version) ==
    [project_id |-> project_id, version |-> version]

(* Two projects and one distro, no package and no version yet.             *)
OwnInit ==
    /\ dialect = "postgresql"
    /\ projects = {ProjectRow(1, <<"a">>), ProjectRow(2, <<"A">>)}
    /\ distros = {DistroRow(<<"A">>)}
    /\ packages = {}
    /\ versions = {}

OwnIdle == versions = {}

(* Packages(project_id=..., distro=..., package_name=...) added and        *)
(* flushed: (distro, package_name) is unique.                              *)
AddPackage ==
    /\ Cardinality(packages) < MaxOwned
    /\ \E p \in projects, d \in distros, name \in PackageNames,
          id \in 1..MaxOwned :
         /\ \A k \in packages : k.id # id
         /\ \A k \in packages :
               ~(k.distro = Some(d.name) /\ k.package_name = name)
         /\ packages' = packages \cup
               {PackageRow(id, Some(p.id), Some(d.name), name)}
    /\ UNCHANGED <<dialect, distros, projects, versions>>
    /\ UNCHANGED notOwn

(* ProjectVersion(project_id=..., version=...) added and flushed: the pair *)
(* is the primary key.                                                     *)
AddVersion ==
    /\ Cardinality(versions) < MaxOwned
    /\ \E p \in projects, version \in VersionStrings :
         /\ VersionRow(p.id, version) \notin versions
         /\ versions' = versions \cup {VersionRow(p.id, version)}
    /\ UNCHANGED dbVars
    /\ UNCHANGED notOwn

(* session.query(Project).filter_by(id=...).delete(): one DELETE statement *)
(* without the unit of work; ondelete="cascade" of both foreign keys       *)
(* removes the rows that refer to the project.                             *)
DeleteProjectQuery ==
    /\ \E p \in projects :
         /\ projects' = projects \ {p}
         /\ packages' = {k \in packages : k.project_id # Some(p.id)}
         /\ versions' = {v \in versions : v.project_id # p.id}
    /\ UNCHANGED <<dialect, distros>>
    /\ UNCHANGED notOwn

OwnNext ==
    \/ AddPackage
    \/ AddVersion
    \/ DeleteProject
    \/ DeleteProjectQuery

-----------------------------------------------------------------------------
(* Run                                                                     *)

MaxTime == 2
RunStatuses == {"ok", "failed"}

RunRow(status, created_on) == [status |-> status, created_on |-> created_on]

(* query.order_by(cls.created_on.desc()).first(): the first row of the     *)
(* ordered result, or None when it is empty.                               *)
LastEntryBad(rs) ==
    {IF Len(q) = 0 THEN None ELSE Some(q[Len(q)]) : q \in NewestFirst(rs)}
LastEntry(rs) ==
    {IF Len(q) = 0 THEN None ELSE Some(q[1]) : q \in NewestFirst(rs)}

RunInit ==
    /\ clock = 0
    /\ runs = {}
    /\ lastEntry = None

RunIdle ==
    /\ runs = {}
    /\ lastEntry = None

(* Run(status=..., [created_on=...]) added and flushed: created_on is      *)
(* utcnow() unless the caller gives it, and (status, created_on) is the    *)
(* primary key, so a second row with the same pair is refused.             *)
RunInsert ==
    /\ \E status \in RunStatuses, created_on \in Opt(0..MaxTime),
          now \in {clock, clock + 1} :
         /\ now <= MaxTime
         /\ LET row == RunRow(status, IF created_on = None THEN now
                                      ELSE Val(created_on))
            IN  /\ row \notin runs
                /\ runs' = runs \cup {row}
         /\ clock' = now
    /\ lastEntry' = None
    /\ UNCHANGED notRun

(* Run.last_entry(session)                                                 *)
CallLastEntry ==
    /\ lastEntry = None
    /\ \E r \in LastEntry(runs) : lastEntry' = Some(r)
    /\ UNCHANGED <<clock, runs>>
    /\ UNCHANGED notRun

RunNext == RunInsert \/ CallLastEntry

-----------------------------------------------------------------------------
(* GUID                                                                    *)
(* The int of a uuid.UUID is its hexadecimal digits as numbers 0..15, most *)
(* significant first, without leading zeros.                               *)

MaxDigits == 2
GuidWidth == 32
HexChars ==
    <<"0", "1", "2", "3", "4", "5", "6", "7", "8", "9",
      "a", "b", "c", "d", "e", "f">>
UpperHexChars ==
    <<"0", "1", "2", "3", "4", "5", "6", "7", "8", "9",
      "A", "B", "C", "D", "E", "F">>

(* int(c, 16) of one character, or -1 where int() raises ValueError.       *)
HexVal(c) ==
    IF \E n \in 1..16 : HexChars[n] = c
    THEN (CHOOSE n \in 1..16 : HexChars[n] = c) - 1
    ELSE IF \E n \in 1..16 : UpperHexChars[n] = c
    THEN (CHOOSE n \in 1..16 : UpperHexChars[n] = c) - 1
    ELSE -1

(* A number without its leading zeros.                                     *)
RECURSIVE StripZeros(_)
StripZeros(ns) ==
    IF ns # <<>> /\ Head(ns) = 0 THEN StripZeros(Tail(ns)) ELSE ns

(* "%.32x" % n: lower-case hexadecimal, at least 32 digits, zeros in front *)
Hex32Bad(n) == [i \in 1..Len(n) |-> HexChars[n[i] + 1]]
Hex32(n) ==
    [i \in 1..(GuidWidth - Len(n)) |-> "0"] \o
    [i \in 1..Len(n) |-> HexChars[n[i] + 1]]

(* u.hex of a uuid.UUID: '%032x' % u.int, the 32 digits of the identifier. *)
UuidHex(n) ==
    [i \in 1..GuidWidth |->
        IF i <= GuidWidth - Len(n) THEN "0"
        ELSE HexChars[n[i - (GuidWidth - Len(n))] + 1]]

(* str(u) of a uuid.UUID: the 32 digits in groups of 8-4-4-4-12.           *)
UuidStr(n) ==
    LET h == UuidHex(n)
    IN  SubSeq(h, 1, 8) \o <<"-">> \o SubSeq(h, 9, 12) \o <<"-">> \o
        SubSeq(h, 13, 16) \o <<"-">> \o SubSeq(h, 17, 20) \o <<"-">> \o
        SubSeq(h, 21, 32)

(* s.replace(sub, ''), for a substring.                                    *)
RECURSIVE RemoveAll(_, _)
RemoveAll(s, sub) ==
    IF s = <<>> THEN <<>>
    ELSE IF IsPrefix(sub, s)
    THEN RemoveAll(SubSeq(s, Len(sub) + 1, Len(s)), sub)
    ELSE <<Head(s)>> \o RemoveAll(Tail(s), sub)

(* s.strip('{}')                                                           *)
RECURSIVE StripBraces(_)
StripBraces(s) ==
    IF s # <<>> /\ Head(s) \in {"{", "}"} THEN StripBraces(Tail(s))
    ELSE IF s # <<>> /\ s[Len(s)] \in {"{", "}"}
    THEN StripBraces(SubSeq(s, 1, Len(s) - 1))
    ELSE s

(* uuid.UUID(s): urn:, uuid:, braces and hyphens are dropped, 32 digits    *)
(* must remain; ValueError otherwise.                                      *)
UuidOf(s) ==
    LET hex == RemoveAll(StripBraces(RemoveAll(RemoveAll(s,
                   <<"u", "r", "n", ":">>), <<"u", "u", "i", "d", ":">>)),
                   <<"-">>)
    IN  IF Len(hex) # GuidWidth \/ \E i \in DOMAIN hex : HexVal(hex[i]) < 0
        THEN [raised |-> TRUE]
        ELSE [raised |-> FALSE, type |-> "UUID",
              int |-> StripZeros([i \in DOMAIN hex |-> HexVal(hex[i])])]

(* What a conversion returns, and that it raised.                          *)
Converted(value) == [raised |-> FALSE, value |-> value]
ConversionRaised == [raised |-> TRUE]

(* GUID.process_bind_param(value, dialect); a value is None, a uuid.UUID   *)
(* [type, int] or a str [type, str].                                       *)
ProcessBindParam(value, d) ==
    IF value = None THEN Converted(None)
    ELSE LET v == Val(value)
         IN  IF d = "postgresql"
             THEN Converted(Some(IF v.type = "UUID" THEN UuidStr(v.int)
                                 ELSE v.str))
             ELSE IF v.type # "UUID"
             THEN LET u == UuidOf(v.str)
                  IN  IF u.raised THEN ConversionRaised
                      ELSE Converted(Some(Hex32(u.int)))
             ELSE Converted(Some(Hex32(v.int)))

(* GUID.process_result_value(value, dialect)                               *)
ProcessResultValue(value, d) ==
    IF value = None THEN Converted(None)
    ELSE LET u == UuidOf(Val(value))
         IN  IF u.raised THEN ConversionRaised
             ELSE Converted(Some([type |-> "UUID", int |-> u.int]))

(* The identifiers tried: every number of at most MaxDigits digits out of  *)
(* 0, 1, a and f, and one of full width.                                   *)
GuidDigits == {0, 1, 10, 15}
RECURSIVE DigitStrings(_)
DigitStrings(n) ==
    IF n = 0 THEN {<<>>}
    ELSE LET shorter == DigitStrings(n - 1)
         IN  shorter \cup {<<g>> \o t : g \in GuidDigits, t \in shorter}
GuidInts ==
    {StripZeros(t) : t \in DigitStrings(MaxDigits)} \cup
    {[i \in 1..GuidWidth |-> ((i * 7) % 15) + 1]}

(* s.upper(), for hexadecimal digits.                                      *)
Upper(s) ==
    [i \in DOMAIN s |-> IF HexVal(s[i]) >= 0 THEN UpperHexChars[HexVal(s[i]) + 1]
                        ELSE s[i]]

(* The forms an identifier is given in: the uuid.UUID itself, str(u), the  *)
(* same in upper case, the bare 32 digits, in braces, and as a URN.  id is *)
(* kept for the properties: the identifier the form was made from.         *)
GuidForms(n) ==
    {[type |-> "UUID", int |-> n, id |-> n]} \cup
    {[type |-> "str", str |-> t, id |-> n] :
        t \in {UuidStr(n), Upper(UuidStr(n)), UuidHex(n),
               <<"{">> \o UuidStr(n) \o <<"}">>,
               <<"u", "r", "n", ":", "u", "u", "i", "d", ":">> \o UuidStr(n)}}
GuidInputs == {None} \cup {Some(f) : f \in UNION {GuidForms(n) : n \in GuidInts}}

GuidInit ==
    /\ dialect \in Dialects
    /\ guidIn \in GuidInputs
    /\ guidStored = Converted(None)
    /\ guidOut = Converted(None)
    /\ guidPc = "new"

GuidIdle ==
    /\ guidIn = None
    /\ guidStored = Converted(None)
    /\ guidOut = Converted(None)
    /\ guidPc = "new"

(* The value is bound to a statement.                                      *)
BindParam ==
    /\ guidPc = "new"
    /\ guidStored' = ProcessBindParam(guidIn, dialect)
    /\ guidPc' = "bound"
    /\ UNCHANGED <<dialect, guidIn, guidOut>>
    /\ UNCHANGED notGuid

(* The stored value is read back.  A value that could not be bound is      *)
(* never stored.                                                           *)
ResultValue ==
    /\ guidPc = "bound"
    /\ ~guidStored.raised
    /\ guidOut' = ProcessResultValue(guidStored.value, dialect)
    /\ guidPc' = "read"
    /\ UNCHANGED <<dialect, guidIn, guidStored>>
    /\ UNCHANGED notGuid

GuidNext == BindParam \/ ResultValue

-----------------------------------------------------------------------------
(* Assignments to the validated fields of a Project, and the flush that    *)
(* writes the object to its row                                            *)

(* The row the object is written to: backend takes the column default      *)
(* 'custom' when the object has none.                                      *)
RowOf(p) ==
    [ProjectRow(1, <<"a">>) EXCEPT
        !.backend = IF p.backend = None THEN Some("custom") ELSE p.backend,
        !.ecosystem_name = p.ecosystem_name,
        !.version_scheme = p.version_scheme]

(* A new object that was never flushed, or an object loaded from its row.  *)
AssignInit ==
    /\ dialect = "postgresql"
    /\ distros = {}
    /\ packages = {}
    /\ \/ project = NewProject /\ projects = {}
       \/ \E backend \in Backends, ecosystem_name \in Opt(Ecosystems) :
            /\ project = [NewProject EXCEPT
                             !.backend = Some(backend),
                             !.ecosystem_name = ecosystem_name]
            /\ projects = {RowOf(project)}
    /\ assignRaised = FALSE
    /\ assigned = None

AssignIdle == assigned = None

(* project.backend = value: validate_backend runs before the attribute is  *)
(* set, and nothing is sent to the database.                               *)
AssignBackend ==
    /\ \E value \in BackendInputs :
         /\ assigned' = Some([field |-> "backend", value |-> value])
         /\ IF BackendRejected(value)
            THEN assignRaised' = TRUE /\ UNCHANGED project
            ELSE /\ assignRaised' = FALSE
                 /\ project' = [project EXCEPT !.backend = value]
    /\ UNCHANGED projects
    /\ UNCHANGED notAssign

(* project.ecosystem_name = value: validate_ecosystem_name runs before the *)
(* attribute is set, and nothing is sent to the database.                  *)
AssignEcosystemName ==
    /\ \E value \in EcosystemInputs :
         /\ assigned' = Some([field |-> "ecosystem_name", value |-> value])
         /\ IF EcosystemRejected(value)
            THEN assignRaised' = TRUE /\ UNCHANGED project
            ELSE /\ assignRaised' = FALSE
                 /\ project' = [project EXCEPT !.ecosystem_name = value]
    /\ UNCHANGED projects
    /\ UNCHANGED notAssign

(* session.add(project); session.flush(): the row is inserted or updated   *)
(* from the object, and the object takes the defaults of the insert.       *)
FlushProject ==
    /\ projects # {RowOf(project)} \/ assigned # None
    /\ projects' = {RowOf(project)}
    /\ project' = [project EXCEPT !.backend = RowOf(project).backend]
    /\ assignRaised' = FALSE
    /\ assigned' = None
    /\ UNCHANGED notAssign

AssignNext == AssignBackend \/ AssignEcosystemName \/ FlushProject

-----------------------------------------------------------------------------
(* _paginate_query on long results                                         *)

MaxItems == 101

(* The pages tried: missing, empty, not numeric, and numeric strings.      *)
PageStrings ==
    {None, Some(<<>>), Some(<<"x">>), Some(<<"1", "x">>), Some(<<"0">>),
     Some(<<"1">>), Some(<<"2">>), Some(<<"3">>), Some(<<"0", "2">>),
     Some(<<"+", "1">>), Some(<<"-", "1">>)}

(* The ordered result of a query with n rows: the rows by their rank.      *)
OrderedRows(n) == [i \in 1..n |-> i]

PqInit ==
    /\ dialect \in Dialects
    /\ pqCount \in 0..MaxItems
    /\ pqPage \in PageStrings
    /\ pqResult = None

PqIdle ==
    /\ pqCount = 0
    /\ pqPage = None
    /\ pqResult = None

(* _paginate_query(query, page), and the query run.                        *)
CallPaginateQuery ==
    /\ pqResult = None
    /\ pqResult' = Some(PaginateQuery(OrderedRows(pqCount), pqPage, dialect))
    /\ UNCHANGED <<dialect, pqCount, pqPage>>
    /\ UNCHANGED notPq

PqNext == CallPaginateQuery

-----------------------------------------------------------------------------
(* The specifications: one per part of the layer.                          *)

InitPaginate ==
    /\ PagInit /\ VerIdle /\ SrchIdle /\ UpdIdle
    /\ FlagIdle /\ SessIdle /\ LogIdle /\ OwnIdle /\ RunIdle /\ GuidIdle
    /\ AssignIdle /\ PqIdle
SpecPaginate == InitPaginate /\ [][PagNext]_vars

InitVersion ==
    /\ VerInit /\ PagIdle /\ SrchIdle /\ UpdIdle
    /\ FlagIdle /\ SessIdle /\ LogIdle /\ OwnIdle /\ RunIdle /\ GuidIdle
    /\ AssignIdle /\ PqIdle
SpecVersion == InitVersion /\ [][VerNext]_vars

InitSearch ==
    /\ SrchInit /\ PagIdle /\ VerIdle /\ UpdIdle
    /\ FlagIdle /\ SessIdle /\ LogIdle /\ OwnIdle /\ RunIdle /\ GuidIdle
    /\ AssignIdle /\ PqIdle
SpecSearch == InitSearch /\ [][SrchNext]_vars

InitPackaged ==
    /\ PackagedInit /\ PagIdle /\ VerIdle /\ UpdIdle /\ FlagIdle /\ SessIdle
    /\ LogIdle /\ OwnIdle /\ RunIdle /\ GuidIdle /\ AssignIdle /\ PqIdle
SpecPackaged == InitPackaged /\ [][PackagedNext]_vars

InitUpdated ==
    /\ UpdInit /\ PagIdle /\ VerIdle /\ lastSearch = None
    /\ FlagIdle /\ SessIdle /\ LogIdle /\ OwnIdle /\ RunIdle /\ GuidIdle
    /\ AssignIdle /\ PqIdle
SpecUpdated == InitUpdated /\ [][UpdNext]_vars

InitFlag ==
    /\ FlagInit /\ PagIdle /\ VerIdle /\ UpdIdle
    /\ SessIdle /\ LogIdle /\ OwnIdle /\ RunIdle /\ GuidIdle /\ AssignIdle
    /\ PqIdle
SpecFlag == InitFlag /\ [][FlagNext]_vars

InitSession ==
    /\ SessInit /\ PagIdle /\ VerIdle /\ UpdIdle /\ FlagIdle /\ LogIdle
    /\ lastSearch = None /\ OwnIdle /\ RunIdle /\ GuidIdle /\ AssignIdle
    /\ PqIdle
SpecSession == InitSession /\ [][SessNext]_vars
SpecDistroSession == InitSession /\ [][DistroSessNext]_vars

InitLog ==
    /\ LogInit /\ PagIdle /\ VerIdle /\ UpdIdle /\ SessIdle
    /\ lastSearch = None /\ flags = {} /\ OwnIdle /\ RunIdle /\ GuidIdle
    /\ AssignIdle /\ PqIdle
SpecLog == InitLog /\ [][LogNext]_vars

InitOwn ==
    /\ OwnInit /\ PagIdle /\ VerIdle /\ UpdIdle /\ SessIdle /\ LogIdle
    /\ lastSearch = None /\ FlagIdle /\ RunIdle /\ GuidIdle /\ AssignIdle
    /\ PqIdle
SpecOwn == InitOwn /\ [][OwnNext]_vars

InitRun ==
    /\ RunInit /\ PagIdle /\ VerIdle /\ SrchIdle /\ UpdIdle /\ SessIdle
    /\ LogIdle /\ OwnIdle /\ flags = {} /\ GuidIdle /\ AssignIdle /\ PqIdle
SpecRun == InitRun /\ [][RunNext]_vars

InitGuid ==
    /\ GuidInit /\ PagIdle /\ VerIdle /\ UpdIdle /\ SessIdle /\ LogIdle
    /\ OwnIdle /\ RunIdle /\ FlagIdle /\ lastSearch = None
    /\ distros = {} /\ projects = {} /\ packages = {} /\ AssignIdle /\ PqIdle
SpecGuid == InitGuid /\ [][GuidNext]_vars

InitAssign ==
    /\ AssignInit /\ PagIdle /\ UpdIdle /\ SessIdle /\ LogIdle /\ OwnIdle
    /\ RunIdle /\ GuidIdle /\ FlagIdle /\ lastSearch = None
    /\ ecoDefault = [e \in Ecosystems |-> None]
    /\ backDefault = [b \in Backends |-> None]
    /\ versionClass = None /\ PqIdle
SpecAssign == InitAssign /\ [][AssignNext]_vars

InitPq ==
    /\ PqInit /\ PagIdle /\ VerIdle /\ UpdIdle /\ FlagIdle /\ SessIdle
    /\ LogIdle /\ OwnIdle /\ RunIdle /\ GuidIdle /\ AssignIdle
    /\ lastSearch = None /\ distros = {} /\ projects = {} /\ packages = {}
SpecPq == InitPq /\ [][PqNext]_vars

-----------------------------------------------------------------------------
\* C1: over a stable dataset and an ordering that is total on it, the pages
\* 1, 2, 3, ... of paginate, concatenated, are at every moment a prefix of the
\* full ordered result, and are the full ordered result (every row once, in
\* the order of the criteria) when the first empty page has come back.
PaginateConcatenation ==
    TotalOn(table, orderBy) =>
        \A q \in OrderedResults(table, orderBy) :
            /\ IsPrefix(collected, q)
            /\ finished => collected = q

PaginateConcatenationWitness ==
    /\ finished
    /\ TotalOn(table, orderBy)
    /\ Len(collected) = MaxRows
    /\ perPage = 2
    /\ nextPage = 4

\* C2: paginate with page < 1 or items_per_page < 1 raises ValueError and
\* returns no Page; with both arguments omitted it returns page 1 with 25
\* items per page; and it raises in no other case.
PaginateInvalidArgument ==
    lastCall # None =>
        LET c == Val(lastCall)
            bad(o) == o # None /\ Val(o) < 1
        IN  /\ (bad(c.page) \/ bad(c.items_per_page)) <=>
                   c.result = [raised |-> "ValueError"]
            /\ (c.page = None /\ c.items_per_page = None) =>
                   /\ c.result.raised = "no"
                   /\ c.result.page = 1
                   /\ c.result.items_per_page = 25
                   /\ Len(c.result.items) <= 25

PaginateInvalidArgumentWitness ==
    /\ lastCall # None
    /\ Val(lastCall).page = Some(0)
    /\ Val(lastCall).items_per_page = Some(2)
    /\ Val(lastCall).result = [raised |-> "ValueError"]

\* C3: get_version_class returns the registry entry for the name chosen in
\* strict precedence: the project's own version_scheme when set; otherwise the
\* default of its ecosystem when it has one and that default is set; otherwise
\* the default of its backend when set; otherwise the global default.
VersionSchemePrecedence ==
    versionClass # None =>
        LET p == project
            chosen ==
                IF Truthy(p.version_scheme) THEN Val(p.version_scheme)
                ELSE IF Truthy(p.ecosystem_name)
                        /\ Truthy(ecoDefault[Val(p.ecosystem_name)])
                     THEN Val(ecoDefault[Val(p.ecosystem_name)])
                ELSE IF Truthy(p.backend) /\ Truthy(backDefault[Val(p.backend)])
                     THEN Val(backDefault[Val(p.backend)])
                ELSE DEFAULT_VERSION_SCHEME
        IN  Val(versionClass) = VersionPlugin(chosen)

VersionSchemePrecedenceWitness ==
    /\ versionClass = Some(Some([scheme |-> "PEP440"]))
    /\ project.version_scheme = None
    /\ project.ecosystem_name = Some("pypi")
    /\ project.backend = Some("GitHub")
    /\ ecoDefault["pypi"] = Some("PEP440")
    /\ backDefault["GitHub"] = Some("RPM")

(* The elements of a sequence.                                             *)
Range(q) == {q[i] : i \in DOMAIN q}

(* value matches pattern when * stands for any run of characters and every *)
(* other character, the underscore included, stands for itself.            *)
RECURSIVE Glob(_, _)
Glob(value, pattern) ==
    IF pattern = <<>> THEN value = <<>>
    ELSE IF Head(pattern) = "*"
    THEN \/ Glob(value, Tail(pattern))
         \/ value # <<>> /\ Glob(Tail(value), pattern)
    ELSE /\ value # <<>>
         /\ Head(value) = Head(pattern)
         /\ Glob(Tail(value), Tail(pattern))

\* C4: Project.search without a distro, for a pattern of name characters only
\* (no `*`; an underscore allowed), returns exactly the projects whose name
\* equals the pattern or that own a package whose package_name equals it.
ProjectSearchExactMatch ==
    (/\ lastSearch # None
     /\ Val(lastSearch).fn = "Project.search"
     /\ Val(lastSearch).pattern \in Names
     /\ Val(lastSearch).distro = None
     /\ Val(lastSearch).result.kind = "rows"
     /\ PageNumber(Val(lastSearch).page) = None)
    => LET pattern == Val(lastSearch).pattern
       IN  Range(Val(lastSearch).result.rows) =
               {p \in projects :
                    \/ p.name = pattern
                    \/ \E k \in packages :
                           k.project_id = Some(p.id) /\ k.package_name = pattern}

\* C5: in Distro.search and Project.search an underscore of the pattern
\* matches only an underscore of the stored name: for a pattern that holds an
\* underscore (and no %), every row returned has a name (for a project: its
\* name or the name of one of its packages) that matches the pattern, letter
\* case aside, with `*` as the only wildcard.
SearchUnderscoreLiteral ==
    (/\ lastSearch # None
     /\ Contains(Val(lastSearch).pattern, "_")
     /\ ~Contains(Val(lastSearch).pattern, "%")
     /\ Val(lastSearch).result.kind = "rows")
    => LET pattern == Lower(Val(lastSearch).pattern)
       IN  \A r \in Range(Val(lastSearch).result.rows) :
               IF Val(lastSearch).fn = "Distro.search"
               THEN Glob(Lower(r.name), pattern)
               ELSE \/ Glob(Lower(r.name), pattern)
                    \/ \E k \in packages :
                           /\ k.project_id = Some(r.id)
                           /\ Glob(Lower(k.package_name), pattern)

(* The projects Project.updated returned for a status, once it was asked.  *)
Returned(status) ==
    IF buckets[status] # None /\ Val(buckets[status]).kind = "rows"
    THEN Range(Val(buckets[status]).rows)
    ELSE {}

\* C6 as claimed: no project is returned by Project.updated for two distinct
\* statuses among updated, failed, odd, new and never_updated.
StatusBucketsExclusive ==
    \A s, t \in Statuses : s # t => Returned(s) \cap Returned(t) = {}

\* C6 as amended: the statuses updated, failed, odd and new are mutually
\* exclusive; never_updated shares no project with updated or new, and every
\* project returned for never_updated is returned for failed or for odd too
\* when those are asked with the same filters.
StatusBucketsOverlap ==
    /\ \A s, t \in Statuses \ {"never_updated"} :
           s # t => Returned(s) \cap Returned(t) = {}
    /\ Returned("never_updated") \cap (Returned("updated") \cup Returned("new")) = {}
    /\ (buckets["failed"] # None /\ buckets["odd"] # None) =>
           Returned("never_updated") \subseteq Returned("failed") \cup Returned("odd")

StatusBucketsOverlapWitness ==
    /\ \A s \in Statuses : buckets[s] # None
    /\ Returned("never_updated") # {}
    /\ Returned("never_updated") \cap Returned("odd") # {}
    /\ filters.name = None /\ filters.log = None

\* C7: after any sequence of flag creations, closings and re-openings,
\* ProjectFlag.search(state=s) with no other argument returns exactly the
\* flags whose state the callers last set to s, a flag created without a
\* state counting as open.
FlagSearchByState ==
    (/\ lastSearch # None
     /\ Val(lastSearch).fn = "ProjectFlag.search"
     /\ Val(lastSearch).state \in Opt(FlagStates) \ {None}
     /\ Val(lastSearch).project_name = None
     /\ Val(lastSearch).from_date = None
     /\ Val(lastSearch).user = None
     /\ Val(lastSearch).limit = None
     /\ Val(lastSearch).offset = None
     /\ ~Val(lastSearch).count)
    => LET s == Val(Val(lastSearch).state)
       IN  Range(Val(lastSearch).result.rows) =
               {f \in flags : IF f.given = None THEN s = "open"
                              ELSE Val(f.given) = s}

FlagSearchByStateWitness ==
    /\ lastSearch # None
    /\ Val(lastSearch).fn = "ProjectFlag.search"
    /\ Val(lastSearch).state = Some("open")
    /\ Val(lastSearch).project_name = None
    /\ Val(lastSearch).from_date = None
    /\ Val(lastSearch).user = None
    /\ Val(lastSearch).limit = None
    /\ Val(lastSearch).offset = None
    /\ ~Val(lastSearch).count
    /\ \E f, g \in flags :
         /\ f.given = None
         /\ g.given = Some("closed")
         /\ Range(Val(lastSearch).result.rows) = {f}

(* C8: Project.get_or_create is idempotent within a session.  All the      *)
(* calls a session made for one (name, homepage) in its transaction        *)
(* returned one and the same id, the table holds exactly one project with  *)
(* that (name, homepage), which is the one returned, and a call for a pair *)
(* the session was already given never reaches the INSERT that would fail. *)
GetOrCreateIdempotent ==
    \A s \in Sessions : \A k \in ProjectKeys :
        /\ sess[s].seen[k] # {} =>
              \E p \in projects :
                 /\ KeyOf(p) = k
                 /\ sess[s].seen[k] = {p.id}
                 /\ \A q \in projects : KeyOf(q) = k => q = p
        /\ (sess[s].pc \in {"insert", "failed"} /\ KeyOf(Val(sess[s].args)) = k)
              => sess[s].seen[k] = {}

(* A session called twice for one pair: the last call found, and returned, *)
(* the row an earlier call of the same transaction inserted.               *)
GetOrCreateIdempotentWitness ==
    \E s \in Sessions : \E p \in projects :
        /\ p.txn = s
        /\ sess[s].pc = "idle"
        /\ sess[s].found
        /\ sess[s].ret = Returned1(p.id)
        /\ sess[s].seen[KeyOf(p)] = {p.id}

(* No two rows of projects have the same (name, homepage).                 *)
ProjectsUnique ==
    \A p \in projects : \A q \in projects : KeyOf(p) = KeyOf(q) => p = q

(* One step of a session out of the INSERT of get_or_create: with a row of *)
(* the same (name, homepage) in the table, the call ends there with        *)
(* IntegrityError, the table as it was and the session in its failed       *)
(* transaction (no second lookup, no second INSERT); with none, it adds    *)
(* and returns its row.                                                    *)
InsertOutcome ==
    \A s \in Sessions :
        (sess[s].pc = "insert" /\ sess'[s].pc # "insert") =>
            LET k == KeyOf(Val(sess[s].args))
            IN  IF \E p \in projects : KeyOf(p) = k
                THEN /\ sess'[s].pc = "failed"
                     /\ sess'[s].ret = Raised("IntegrityError")
                     /\ projects' = projects
                ELSE \E p \in projects' \ projects :
                        /\ KeyOf(p) = k
                        /\ projects' = projects \cup {p}
                        /\ sess'[s].pc = "idle"
                        /\ sess'[s].ret = Returned1(p.id)

LogSnapshots ==
    \A i \in DOMAIN logRows :
        /\ logRows[i].project =
              IF logRows[i].given.project = None THEN None
              ELSE Some(Val(logRows[i].given.project).name)
        /\ logRows[i].distro =
              IF logRows[i].given.distro = None THEN None
              ELSE Some(Val(logRows[i].given.distro).name)

(* One step leaves every entry as it is, and adds at most one, at the end; *)
(* an entry added holds the names of a project and a distro of the tables  *)
(* as they are at that step.                                               *)
LogAppendStep ==
    \/ logRows' = logRows
    \/ \E e \in {logRows'[Len(logRows')]} :
          /\ logRows' = Append(logRows, e)
          /\ e.project \in Opt({p.name : p \in projects})
          /\ e.distro \in Opt({d.name : d \in distros})
          /\ e.given.project \in Opt(projects)
          /\ e.given.distro \in Opt(distros)

(* C10: the audit log is append-only with snapshot names.  Log.insert adds *)
(* exactly one entry, with the names of the given project and distro as    *)
(* they are at the insert, and changes no entry; no later operation,       *)
(* renaming or deleting the project or distro included, removes an entry   *)
(* or changes its names.                                                   *)
LogAppendOnly == []LogSnapshots /\ [][LogAppendStep]_vars

(* An entry that has outlived both its project and its distro: it names a  *)
(* project and a distro, and no project and no distro has these names now, *)
(* while a later entry was added after it.                                 *)
LogAppendOnlyWitness ==
    /\ Len(logRows) = 2
    /\ logRows[1].project # None
    /\ logRows[1].distro # None
    /\ \A p \in projects : p.name # Val(logRows[1].project)
    /\ \A d \in distros : d.name # Val(logRows[1].distro)
    /\ logRows[2].given.project # None
    /\ logRows[2].given.project # logRows[1].given.project
    /\ logRet = "returned"

(* C11: a Project strictly owns its ProjectVersion and Packages rows: in   *)
(* every reachable state, also after a project was deleted, every          *)
(* ProjectVersion row and every Packages row refers to a project that      *)
(* exists.                                                                 *)
ProjectOwnsRows ==
    /\ \A v \in versions : \E p \in projects : p.id = v.project_id
    /\ \A k \in packages : \E p \in projects : Some(p.id) = k.project_id

(* C12: after any sequence of Run insertions, Run.last_entry returns a     *)
(* stored Run row whose created_on no stored row exceeds, and returns none *)
(* exactly when no Run row is stored.                                      *)
LastEntryIsNewest ==
    lastEntry # None =>
        LET r == Val(lastEntry)
        IN  /\ (r = None) <=> (runs = {})
            /\ r # None =>
                  /\ Val(r) \in runs
                  /\ \A o \in runs : o.created_on <= Val(r).created_on

(* last_entry returned a row out of three or more, some of them older, and *)
(* one with a created_on that only the caller can have given.              *)
LastEntryIsNewestWitness ==
    /\ lastEntry # None
    /\ Val(lastEntry) # None
    /\ Cardinality(runs) >= 3
    /\ \E o \in runs : o.created_on < Val(Val(lastEntry)).created_on
    /\ \E o \in runs : o.created_on > clock

(* C13: the identity type round-trips on both engines.  For every          *)
(* identifier, given as a uuid.UUID or in a string form, reading back what *)
(* was bound gives the uuid.UUID of that identifier; off PostgreSQL the    *)
(* stored form is exactly 32 lower-case hexadecimal characters, without a  *)
(* hyphen; None goes through unchanged in both directions.                 *)
GuidRoundTrip ==
    /\ guidPc # "new" =>
          /\ ~guidStored.raised
          /\ (guidStored.value = None) <=> (guidIn = None)
          /\ (guidIn # None /\ dialect # "postgresql") =>
                LET stored == Val(guidStored.value)
                IN  /\ Len(stored) = 32
                    /\ \A i \in DOMAIN stored :
                          \E n \in 1..16 : HexChars[n] = stored[i]
    /\ guidPc = "read" =>
          /\ ~guidOut.raised
          /\ guidOut.value =
                IF guidIn = None THEN None
                ELSE Some([type |-> "UUID", int |-> Val(guidIn).id])

(* An identifier with zeros in front, given as an upper-case string, was   *)
(* stored off PostgreSQL and read back.                                    *)
GuidRoundTripWitness ==
    /\ guidPc = "read"
    /\ dialect # "postgresql"
    /\ guidIn # None
    /\ Val(guidIn).type = "str"
    /\ Len(Val(guidIn).id) = 2
    /\ Val(guidIn).str # Lower(Val(guidIn).str)
    /\ Val(guidIn).str # Val(guidStored.value)
    /\ guidOut.value # None

(* The last assignment raised exactly when its value is not a registered   *)
(* backend, or is a non-empty name that is no registered ecosystem; the    *)
(* field holds the value when it did not raise; and no row ever holds an   *)
(* unregistered name.                                                      *)
AssignmentChecked ==
    /\ assigned # None =>
          LET a == Val(assigned)
              bad == IF a.field = "backend"
                     THEN a.value = None \/ Val(a.value) \notin Backends
                     ELSE /\ a.value # None
                          /\ Val(a.value) # ""
                          /\ Val(a.value) \notin Ecosystems
          IN  /\ assignRaised <=> bad
              /\ ~bad => project[a.field] = a.value
    /\ \A r \in projects :
          /\ r.backend # None /\ Val(r.backend) \in Backends
          /\ r.ecosystem_name \in Opt(Ecosystems \cup {""})

(* A step that ends with the error leaves the object and the table alone.  *)
RejectionWritesNothing ==
    assignRaised' => (project' = project /\ projects' = projects)

(* C14: assigning an unregistered backend, or a non-empty unregistered     *)
(* ecosystem name, raises at the assignment, before anything is written:   *)
(* the field does not take the value and no row is inserted or changed; an *)
(* empty or absent ecosystem_name is accepted.                             *)
AssignmentValidated == []AssignmentChecked /\ [][RejectionWritesNothing]_vars

(* An unregistered ecosystem name was refused on an object whose row holds *)
(* the empty ecosystem name, accepted and flushed before.                  *)
AssignmentValidatedWitness ==
    /\ assignRaised
    /\ assigned = Some([field |-> "ecosystem_name", value |-> Some("bogus")])
    /\ project.ecosystem_name = Some("")
    /\ \E r \in projects : r.ecosystem_name = Some("")

(* C15: Project.by_distro looks the distro up without regard to letter     *)
(* case: it returns exactly the projects with at least one package whose   *)
(* distro equals the given name letter case aside, each of them once.      *)
ByDistroIgnoresCase ==
    (/\ lastSearch # None
     /\ Val(lastSearch).fn = "Project.by_distro"
     /\ Val(lastSearch).result.kind = "rows")
    => LET rows == Val(lastSearch).result.rows
           distro == Val(Val(lastSearch).distro)
       IN  /\ Range(rows) =
                 {p \in projects :
                     \E k \in packages :
                        /\ k.project_id = Some(p.id)
                        /\ k.distro # None
                        /\ Lower(Val(k.distro)) = Lower(distro)}
           /\ \A i, j \in DOMAIN rows : rows[i] = rows[j] => i = j

(* by_distro("a") returned one project and not the other: the one returned *)
(* has two packages, both in distro "A"; the other has none in it.         *)
ByDistroIgnoresCaseWitness ==
    /\ lastSearch # None
    /\ Val(lastSearch).fn = "Project.by_distro"
    /\ Val(lastSearch).distro = Some(<<"a">>)
    /\ Val(lastSearch).result.kind = "rows"
    /\ Len(Val(lastSearch).result.rows) = 1
    /\ Cardinality({k \in packages :
          /\ k.project_id = Some(Val(lastSearch).result.rows[1].id)
          /\ k.distro = Some(<<"A">>)}) = 2

(* C17: Project.search results are deduplicated: every project is returned *)
(* at most once, also when it matches by its own name and by a package     *)
(* name or through several packages; and with a distro given, every        *)
(* project returned has a package in that distro, letter case aside.       *)
SearchDeduplicated ==
    (/\ lastSearch # None
     /\ Val(lastSearch).fn = "Project.search"
     /\ Val(lastSearch).result.kind = "rows")
    => LET rows == Val(lastSearch).result.rows
           distro == Val(lastSearch).distro
       IN  /\ \A i, j \in DOMAIN rows : rows[i].id = rows[j].id => i = j
           /\ distro # None =>
                 \A i \in DOMAIN rows :
                    \E k \in packages :
                       /\ k.project_id = Some(rows[i].id)
                       /\ k.distro # None
                       /\ Lower(Val(k.distro)) = Lower(Val(distro))

(* A search for "a" in distro "a" returned project "a" once: it matches by *)
(* its own name and by the name of a package, and has two packages in      *)
(* distro "A".                                                             *)
SearchDeduplicatedWitness ==
    /\ lastSearch # None
    /\ Val(lastSearch).fn = "Project.search"
    /\ Val(lastSearch).pattern = <<"a">>
    /\ Val(lastSearch).distro = Some(<<"a">>)
    /\ Val(lastSearch).result.kind = "rows"
    /\ Len(Val(lastSearch).result.rows) = 1
    /\ Val(lastSearch).result.rows[1].name = <<"a">>
    /\ Cardinality({k \in packages :
          /\ k.project_id = Some(Val(lastSearch).result.rows[1].id)
          /\ k.distro = Some(<<"A">>)}) = 2
    /\ \E k \in packages :
          /\ k.project_id = Some(Val(lastSearch).result.rows[1].id)
          /\ k.package_name = <<"a">>

(* The rows of q at the places offset + 1 .. offset + limit.               *)
Slice(q, offset, limit) ==
    LET from == IF offset + 1 < 1 THEN 1 ELSE offset + 1
    IN  SubSeq(q, from, Min(Len(q), offset + limit))

(* C16: _paginate_query returns the whole ordered result for a missing or  *)
(* non-numeric page, and for a page that is a numeric string with value p  *)
(* the slice that starts at offset (p - 1) * 50 and holds at most 50       *)
(* items.                                                                  *)
SecondaryPagination ==
    pqResult # None =>
        LET whole == OrderedRows(pqCount)
            r == Val(pqResult)
        IN  /\ r.raised = "no"
            /\ IF pqPage = None \/ ~IsInt(Val(pqPage))
               THEN r.rows = whole
               ELSE /\ r.rows = Slice(whole, (IntOf(Val(pqPage)) - 1) * 50, 50)
                    /\ Len(r.rows) <= 50

(* C18: distro names stay unique when letter case is ignored: after any    *)
(* sequence of Distro.get_or_create calls, from sessions that interleave   *)
(* and for names that differ in letter case only, no two stored Distro     *)
(* rows have names that are equal letter case aside.                       *)
DistroNamesUnique ==
    \A m \in distros : \A n \in distros :
        Lower(m.name) = Lower(n.name) => m = n

=============================================================================
